---- MODULE Spec2Model ----
(***************************************************************************)
(* Model of src/sampleFlick.py: FlicMPVController, a controller that       *)
(* toggles a looping background ("carescape") video and a one-shot demo    *)
(* video played by an external mpv process.                                *)
(*                                                                         *)
(* Execution contexts of the program:                                      *)
(*   - the main thread: run(), keyboard.wait(), cleanup();                 *)
(*   - the hotkey listener thread, which runs the callbacks                *)
(*     flic_button_pressed / stop_mpv / restart_carescape one at a time;   *)
(*   - one daemon thread per successful demo start: monitor_demo_end();    *)
(*   - the environment: player processes exit, the user sends Ctrl+C.      *)
(* The program takes no lock: every read or write of a shared attribute    *)
(* (mpv_process, is_demo_playing, stop_monitoring, the process table, the  *)
(* system volume) is one step of the thread that makes it.                 *)
(***************************************************************************)
EXTENDS Integers, Sequences, FiniteSets

\* ---------------------------------------------------------------- bounds
MaxProcs == 6    \* player processes spawned in one run
MaxMon == 2      \* monitor threads started in one run
MaxTrig == 3     \* external events in one run: hotkey presses, the user quitting mpv

\* ------------------------------------------------------ program constants
carescape_volume == 50
demo_volume == 75

NoProc == 0
InitialVolume == 0

Monitors == 1..MaxMon
MainT == MaxMon + 1
HkT == MaxMon + 2
Threads == 1..(MaxMon + 2)

VARIABLES
    procs,            \* every player process spawned so far, in spawn order
    mpv_process,      \* self.mpv_process: NoProc (None) or an index of procs
    is_demo_playing,  \* self.is_demo_playing
    stop_monitoring,  \* self.stop_monitoring (threading.Event)
    mpv_exe,          \* self.mpv_exe is set
    volume_control,   \* self.volume_control is not None
    volume,           \* the system master volume, in percent
    paths,            \* which of the two video files exist
    hotkeys,          \* the hotkeys registered with the keyboard library
    nmon,             \* number of monitor threads started so far
    pc,               \* each thread's position
    frame,            \* each thread's locals
    hist              \* history, read by no action's guard but the event budget:
                      \*   prev    the last event handled: "tdemo_ok" / "tdemo_fail"
                      \*           (toggle into Demo), "roundtrip" (a toggle back
                      \*           with the volume set, right after "tdemo_ok"),
                      \*           "stop" (a manual-stop that stopped a process, and the
\*           manual-stops that follow it), "other", "none"
                      \*   ntrig   external events so far
                      \*   sess    per monitor, the demo process it was started for
                      \*   reacted the monitors' detections of an ended process:
                      \*           [m: monitor, p: the process, gen: spawns so far,
                      \*            np: the carescape process spawned in reaction]
                      \*   failed  a call of start_mpv by a callback or a monitor
                      \*           has returned False
                      \*   init    what run() got from its start of the carescape video:
\*           "none" (not yet), "ok", "failed"
\*   cl      how far cleanup() has come with the player: "none", "term"
\*           (terminate() called), "timeout" (wait raised
\*           TimeoutExpired), "returned" (wait returned), "killed"
\*   ended   the held demo process that ended by itself, with
                      \*           is_demo_playing set, no callback running and no
                      \*           start failed so far, if no external event came since

vars == <<procs, mpv_process, is_demo_playing, stop_monitoring, mpv_exe,
          volume_control, volume, paths, hotkeys, nmon, pc, frame, hist>>

shared == <<mpv_process, is_demo_playing, stop_monitoring, mpv_exe,
            volume_control, volume, paths, hotkeys>>

\* ------------------------------------------------------------- helpers

\* A freshly spawned process: subprocess.Popen(cmd, ...)
NewProc(video, loop) ==
    [video |-> video, loop |-> loop, alive |-> TRUE, term |-> FALSE]

\* p.poll() is None, for the handle p (NoProc stands for None)
Alive(p) == p # NoProc /\ procs[p].alive

\* p.terminate(): asks the process to end; it ends in a later step (ProcExit)
Terminate(ps, p) ==
    IF p # NoProc /\ ps[p].alive THEN [ps EXCEPT ![p].term = TRUE] ELSE ps

\* p.kill(): the process is gone when the call returns
Kill(ps, p) ==
    IF p # NoProc /\ ps[p].alive THEN [ps EXCEPT ![p].alive = FALSE] ELSE ps

\* start_mpv choosing the demo volume for every video
TargetVolumeMutant(video) == demo_volume

\* start_mpv's choice of target_volume (volume is never passed by a caller)
TargetVolume(video) ==
    IF video = "carescape" THEN carescape_volume ELSE demo_volume

\* a thread's locals when it runs no handler
NoFrame ==
    [ctx |-> "none", video |-> "none", loop |-> FALSE, newp |-> NoProc,
     ret |-> FALSE, why |-> "none", wp |-> NoProc, prior |-> NoProc,
     volok |-> FALSE, repl |-> NoProc]

\* the program runs until run() returns
Running == pc[MainT] \notin {"aborted", "exit"}

Goto(t, loc) == pc' = [pc EXCEPT ![t] = loc]

\* Thread t calls start_mpv(video, loop) from handler ctx, and start_mpv runs
\* up to its first access to a shared attribute: find_mpv() when mpv_exe is
\* unset, the command line, subprocess.Popen and time.sleep(0.3). The new
\* process is known to this thread alone until SmAssign. exe says whether
\* mpv_exe is set or find_mpv() finds it, raised whether Popen raises.
CallStart(t, ctx, video, loop, exe, raised) ==
    LET f == [NoFrame EXCEPT !.ctx = ctx, !.video = video, !.loop = loop,
                             !.prior = IF Alive(mpv_process) THEN mpv_process
                                       ELSE NoProc]
    IN  /\ mpv_exe' = (mpv_exe \/ exe)
        /\ IF ~(mpv_exe \/ exe)
           THEN /\ pc' = [pc EXCEPT ![t] = "ret"]
                /\ frame' = [frame EXCEPT ![t] = [f EXCEPT !.why = "nompv"]]
                /\ UNCHANGED procs
           ELSE IF raised \/ Len(procs) >= MaxProcs
           THEN /\ pc' = [pc EXCEPT ![t] = "ret"]
                /\ frame' = [frame EXCEPT ![t] = [f EXCEPT !.why = "spawn"]]
                /\ UNCHANGED procs
           ELSE /\ pc' = [pc EXCEPT ![t] = "sm_check"]
                /\ frame' = [frame EXCEPT ![t] = [f EXCEPT !.newp = Len(procs) + 1]]
                /\ procs' = Append(procs, NewProc(video, loop))

\* start_mpv returns ok to its caller
ReturnStart(t, ok, why) ==
    /\ pc' = [pc EXCEPT ![t] = "ret"]
    /\ frame' = [frame EXCEPT ![t].ret = ok, ![t].why = why]

\* a thread's function returns: the thread is over, its locals are gone
EndThread(t) ==
    /\ pc' = [pc EXCEPT ![t] = "done"]
    /\ frame' = [frame EXCEPT ![t] = NoFrame]

\* run() returns after cleanup(): the interpreter exits, and the listener and
\* monitor threads, all daemon threads, end with it wherever they are
ExitProgram ==
    /\ pc' = [t \in Threads |-> IF t = MainT THEN "exit" ELSE "done"]
    /\ frame' = [t \in Threads |-> NoFrame]

\* a hotkey callback returns; outcome is what it did, ok is FALSE when its
\* call of start_mpv failed
Finish(outcome, ok) ==
    /\ pc' = [pc EXCEPT ![HkT] = "idle"]
    /\ frame' = [frame EXCEPT ![HkT] = NoFrame]
    /\ hist' = [hist EXCEPT !.prev = outcome, !.failed = @ \/ ~ok]

\* -------------------------------------------------------------- Init

Init ==
    /\ procs = << >>
    /\ mpv_process = NoProc
    /\ is_demo_playing = FALSE
    /\ stop_monitoring = FALSE
    /\ mpv_exe = FALSE
    /\ volume_control \in BOOLEAN
    /\ volume = InitialVolume
    /\ paths \in [carescape : BOOLEAN, demo : BOOLEAN]
    /\ hotkeys = {}
    /\ nmon = 0
    /\ pc = [t \in Threads |->
                IF t = MainT THEN "rn_paths" ELSE IF t = HkT THEN "idle" ELSE "unborn"]
    /\ frame = [t \in Threads |-> NoFrame]
    /\ hist = [prev |-> "none", ntrig |-> 0, sess |-> [m \in Monitors |-> NoProc],
               reacted |-> {}, ended |-> NoProc, failed |-> FALSE,
               cl |-> "none", init |-> "none"]

\* ---------------------------------------------------------- start_mpv

\* if self.mpv_process and self.mpv_process.poll() is None:
SmCheck(t) ==
    /\ Running
    /\ pc[t] = "sm_check"
    /\ Goto(t, IF Alive(mpv_process) THEN "sm_term" ELSE "sm_assign")
    /\ UNCHANGED <<procs, shared, nmon, frame, hist>>

\*     self.mpv_process.terminate()
SmTerm(t) ==
    /\ Running
    /\ pc[t] = "sm_term"
    /\ procs' = Terminate(procs, mpv_process)
    /\ Goto(t, "sm_assign")
    /\ UNCHANGED <<shared, nmon, frame, hist>>

\* self.mpv_process = new_process  (repl: the handle this overwrites)
SmAssign(t) ==
    /\ Running
    /\ pc[t] = "sm_assign"
    /\ mpv_process' = frame[t].newp
    /\ pc' = [pc EXCEPT ![t] = "sm_poll"]
    /\ frame' = [frame EXCEPT ![t].repl = mpv_process]
    /\ UNCHANGED <<procs, is_demo_playing, stop_monitoring, mpv_exe, volume_control,
                   volume, paths, hotkeys, nmon, hist>>

\* start_mpv calling set_volume before its liveness check
SmPollMutant(t) ==
    /\ Running
    /\ pc[t] = "sm_poll"
    /\ volume' = IF volume_control THEN TargetVolume(frame[t].video) ELSE volume
    /\ IF Alive(mpv_process)
       THEN Goto(t, "sm_vol") /\ UNCHANGED frame
       ELSE ReturnStart(t, FALSE, "exited")
    /\ UNCHANGED <<procs, mpv_process, is_demo_playing, stop_monitoring, mpv_exe,
                   volume_control, paths, hotkeys, nmon, hist>>

\* if self.mpv_process.poll() is not None: ... return False
SmPoll(t) ==
    /\ Running
    /\ pc[t] = "sm_poll"
    /\ IF Alive(mpv_process)
       THEN Goto(t, "sm_vol") /\ UNCHANGED frame
       ELSE ReturnStart(t, FALSE, "exited")
    /\ UNCHANGED <<procs, shared, nmon, hist>>

\* start_mpv returning what set_volume returned
SmVolMutant(t) ==
    /\ Running
    /\ pc[t] = "sm_vol"
    /\ \E raised \in BOOLEAN :
         LET ok == volume_control /\ ~raised IN
         /\ volume' = IF ok THEN TargetVolume(frame[t].video) ELSE volume
         /\ pc' = [pc EXCEPT ![t] = "ret"]
         /\ frame' = [frame EXCEPT ![t].ret = ok, ![t].volok = ok]
    /\ UNCHANGED <<procs, mpv_process, is_demo_playing, stop_monitoring, mpv_exe,
                   volume_control, paths, hotkeys, nmon, hist>>

\* set_volume(target_volume); return True
SmVol(t) ==
    /\ Running
    /\ pc[t] = "sm_vol"
    /\ \E raised \in BOOLEAN :
         LET ok == volume_control /\ ~raised IN
         /\ volume' = IF ok THEN TargetVolume(frame[t].video) ELSE volume
         /\ pc' = [pc EXCEPT ![t] = "ret"]
         /\ frame' = [frame EXCEPT ![t].ret = TRUE, ![t].volok = ok]
    /\ UNCHANGED <<procs, mpv_process, is_demo_playing, stop_monitoring, mpv_exe,
                   volume_control, paths, hotkeys, nmon, hist>>

\* ------------------------------------------------------- run / cleanup

\* run() checking the carescape path alone
RunPathsMutant ==
    /\ pc[MainT] = "rn_paths"
    /\ Goto(MainT, IF paths.carescape THEN "rn_find" ELSE "aborted")
    /\ UNCHANGED <<procs, shared, nmon, frame, hist>>

\* run(): os.path.exists on both video paths
RunPaths ==
    /\ pc[MainT] = "rn_paths"
    /\ Goto(MainT, IF paths.carescape /\ paths.demo THEN "rn_find" ELSE "aborted")
    /\ UNCHANGED <<procs, shared, nmon, frame, hist>>

\* run(): find_mpv(), then the call of start_mpv(carescape_video, loop=True)
RunFind ==
    /\ pc[MainT] = "rn_find"
    /\ \E found, raised \in BOOLEAN :
         IF found
         THEN CallStart(MainT, "init", "carescape", TRUE, TRUE, raised)
         ELSE UNCHANGED <<mpv_exe, procs, frame>> /\ Goto(MainT, "aborted")
    /\ UNCHANGED <<mpv_process, is_demo_playing, stop_monitoring,
                   volume_control, volume, paths, hotkeys, nmon, hist>>

\* run() going on to the hotkeys whatever start_mpv returned
RunAfterStartMutant ==
    /\ pc[MainT] = "ret"
    /\ frame[MainT].ctx = "init"
    /\ Goto(MainT, "rn_hotkeys")
    /\ frame' = [frame EXCEPT ![MainT] = NoFrame]
    /\ hist' = [hist EXCEPT !.init = IF frame[MainT].ret THEN "ok" ELSE "failed"]
    /\ UNCHANGED <<procs, shared, nmon>>

\* run(): if not self.start_mpv(...): return
RunAfterStart ==
    /\ pc[MainT] = "ret"
    /\ frame[MainT].ctx = "init"
    /\ Goto(MainT, IF frame[MainT].ret THEN "rn_hotkeys" ELSE "aborted")
    /\ frame' = [frame EXCEPT ![MainT] = NoFrame]
    /\ hist' = [hist EXCEPT !.init = IF frame[MainT].ret THEN "ok" ELSE "failed"]
    /\ UNCHANGED <<procs, shared, nmon>>

\* setup_flic_hotkey(): add_hotkey for d, e, r, or an exception (the script
\* does not run as administrator); run() continues either way
HotkeyPrefixes == {{}, {"d", "e", "r"}}

RunHotkeys ==
    /\ pc[MainT] = "rn_hotkeys"
    /\ hotkeys' \in HotkeyPrefixes
    /\ Goto(MainT, "rn_wait")
    /\ UNCHANGED <<procs, mpv_process, is_demo_playing, stop_monitoring, mpv_exe,
                   volume_control, volume, paths, nmon, frame, hist>>

\* Ctrl+C: keyboard.wait('ctrl+c') returns or raises KeyboardInterrupt, and
\* the finally clause calls cleanup(): self.stop_monitoring.set()
ExitSignal ==
    /\ pc[MainT] = "rn_wait"
    /\ hist.ntrig < MaxTrig
    /\ stop_monitoring' = TRUE
    /\ Goto(MainT, "cl_check")
    /\ hist' = [hist EXCEPT !.ntrig = @ + 1, !.ended = NoProc]
    /\ UNCHANGED <<procs, mpv_process, is_demo_playing, mpv_exe, volume_control,
                   volume, paths, hotkeys, nmon, frame>>

\* cleanup(): if self.mpv_process and self.mpv_process.poll() is None:
ClCheck ==
    /\ pc[MainT] = "cl_check"
    /\ IF Alive(mpv_process)
       THEN Goto(MainT, "cl_term") /\ UNCHANGED frame
       ELSE ExitProgram
    /\ UNCHANGED <<procs, shared, nmon, hist>>

\* cleanup(): self.mpv_process.terminate()
ClTerm ==
    /\ pc[MainT] = "cl_term"
    /\ procs' = Terminate(procs, mpv_process)
    /\ Goto(MainT, "cl_wait0")
    /\ hist' = [hist EXCEPT !.cl = "term"]
    /\ UNCHANGED <<shared, nmon, frame>>

\* cleanup(): self.mpv_process.wait(timeout=3) is entered on the current handle
ClWait0 ==
    /\ pc[MainT] = "cl_wait0"
    /\ frame' = [frame EXCEPT ![MainT].wp = mpv_process]
    /\ Goto(MainT, "cl_wait")
    /\ UNCHANGED <<procs, shared, nmon, hist>>

\* cleanup() going on to kill() although wait returned
ClWaitMutant ==
    /\ pc[MainT] = "cl_wait"
    /\ Goto(MainT, "cl_kill")
    /\ hist' = [hist EXCEPT !.cl = IF Alive(frame[MainT].wp)
                                   THEN "timeout" ELSE "returned"]
    /\ UNCHANGED <<procs, shared, nmon, frame>>

\* cleanup(): wait returns (the process ended) or raises TimeoutExpired
ClWait ==
    /\ pc[MainT] = "cl_wait"
    /\ IF Alive(frame[MainT].wp)
       THEN /\ Goto(MainT, "cl_kill")
            /\ hist' = [hist EXCEPT !.cl = "timeout"]
            /\ UNCHANGED frame
       ELSE /\ ExitProgram
            /\ hist' = [hist EXCEPT !.cl = "returned"]
    /\ UNCHANGED <<procs, shared, nmon>>

\* cleanup(): self.mpv_process.kill()
ClKill ==
    /\ pc[MainT] = "cl_kill"
    /\ procs' = Kill(procs, mpv_process)
    /\ ExitProgram
    /\ hist' = [hist EXCEPT !.cl = "killed"]
    /\ UNCHANGED <<shared, nmon>>

\* ------------------------------------------- flic_button_pressed (toggle)

\* Ctrl+Alt+D: if self.is_demo_playing: ... else: ...
Toggle ==
    /\ Running
    /\ pc[HkT] = "idle"
    /\ "d" \in hotkeys
    /\ hist.ntrig < MaxTrig
    /\ is_demo_playing \/ nmon < MaxMon
    /\ Goto(HkT, IF is_demo_playing THEN "tb_set" ELSE "td_flag")
    /\ hist' = [hist EXCEPT !.ntrig = @ + 1, !.ended = NoProc]
    /\ UNCHANGED <<procs, shared, nmon, frame>>

\* self.stop_monitoring.set(); start_mpv(self.carescape_video, loop=True)
TbSet ==
    /\ Running
    /\ pc[HkT] = "tb_set"
    /\ stop_monitoring' = TRUE
    /\ \E exe, raised \in BOOLEAN :
         CallStart(HkT, "tback", "carescape", TRUE, exe, raised)
    /\ UNCHANGED <<mpv_process, is_demo_playing, volume_control,
                   volume, paths, hotkeys, nmon, hist>>

\* flic_button_pressed calling start_mpv again when the start failed
TbRetMutant ==
    /\ Running
    /\ pc[HkT] = "ret"
    /\ frame[HkT].ctx = "tback"
    /\ IF frame[HkT].ret
       THEN /\ is_demo_playing' = FALSE
            /\ Goto(HkT, "tb_clear")
            /\ UNCHANGED <<frame, hist>>
       ELSE /\ UNCHANGED is_demo_playing
            /\ Goto(HkT, "tb_set")
            /\ frame' = [frame EXCEPT ![HkT] = NoFrame]
            /\ hist' = [hist EXCEPT !.failed = TRUE]
    /\ UNCHANGED <<procs, mpv_process, stop_monitoring, mpv_exe, volume_control,
                   volume, paths, hotkeys, nmon>>

\* if success: self.is_demo_playing = False   /   else: (only a message)
TbRet ==
    /\ Running
    /\ pc[HkT] = "ret"
    /\ frame[HkT].ctx = "tback"
    /\ IF frame[HkT].ret
       THEN /\ is_demo_playing' = FALSE
            /\ Goto(HkT, "tb_clear")
            /\ UNCHANGED <<frame, hist>>
       ELSE /\ UNCHANGED is_demo_playing
            /\ Finish("other", FALSE)
    /\ UNCHANGED <<procs, mpv_process, stop_monitoring, mpv_exe, volume_control,
                   volume, paths, hotkeys, nmon>>

\*     self.stop_monitoring.clear()
TbClear ==
    /\ Running
    /\ pc[HkT] = "tb_clear"
    /\ stop_monitoring' = FALSE
    /\ Finish(IF hist.prev = "tdemo_ok" /\ frame[HkT].volok
              THEN "roundtrip" ELSE "other", TRUE)
    /\ UNCHANGED <<procs, mpv_process, is_demo_playing, mpv_exe, volume_control,
                   volume, paths, hotkeys, nmon>>

\* self.is_demo_playing = True; start_mpv(self.demo_video, loop=False)
TdFlag ==
    /\ Running
    /\ pc[HkT] = "td_flag"
    /\ is_demo_playing' = TRUE
    /\ \E exe, raised \in BOOLEAN :
         CallStart(HkT, "tdemo", "demo", FALSE, exe, raised)
    /\ UNCHANGED <<mpv_process, stop_monitoring, volume_control,
                   volume, paths, hotkeys, nmon, hist>>

\* flic_button_pressed without its "else: self.is_demo_playing = False"
TdRetMutant ==
    /\ Running
    /\ pc[HkT] = "ret"
    /\ frame[HkT].ctx = "tdemo"
    /\ IF frame[HkT].ret
       THEN /\ nmon' = nmon + 1
            /\ pc' = [pc EXCEPT ![HkT] = "idle", ![nmon + 1] = "mn_loop"]
            /\ frame' = [frame EXCEPT ![HkT] = NoFrame]
            /\ hist' = [hist EXCEPT !.prev = "tdemo_ok",
                                    !.sess[nmon + 1] = frame[HkT].newp]
       ELSE /\ Finish("tdemo_fail", FALSE)
            /\ UNCHANGED nmon
    /\ UNCHANGED <<procs, mpv_process, is_demo_playing, stop_monitoring, mpv_exe,
                   volume_control, volume, paths, hotkeys>>

\* if success: Thread(target=self.monitor_demo_end).start()
\* else: self.is_demo_playing = False
TdRet ==
    /\ Running
    /\ pc[HkT] = "ret"
    /\ frame[HkT].ctx = "tdemo"
    /\ IF frame[HkT].ret
       THEN /\ nmon' = nmon + 1
            /\ pc' = [pc EXCEPT ![HkT] = "idle", ![nmon + 1] = "mn_loop"]
            /\ frame' = [frame EXCEPT ![HkT] = NoFrame]
            /\ hist' = [hist EXCEPT !.prev = "tdemo_ok",
                                    !.sess[nmon + 1] = frame[HkT].newp]
            /\ UNCHANGED is_demo_playing
       ELSE /\ is_demo_playing' = FALSE
            /\ Finish("tdemo_fail", FALSE)
            /\ UNCHANGED nmon
    /\ UNCHANGED <<procs, mpv_process, stop_monitoring, mpv_exe, volume_control,
                   volume, paths, hotkeys>>

\* ------------------------------------------------ stop_mpv (manual-stop)

\* Ctrl+Alt+E: if self.mpv_process and self.mpv_process.poll() is None: ...
\* else: (only a message)
ManualStop ==
    /\ Running
    /\ pc[HkT] = "idle"
    /\ "e" \in hotkeys
    /\ hist.ntrig < MaxTrig
    /\ IF Alive(mpv_process)
       THEN /\ Goto(HkT, "st_set")
            /\ hist' = [hist EXCEPT !.ntrig = @ + 1, !.ended = NoProc]
            /\ UNCHANGED frame
       ELSE /\ pc' = [pc EXCEPT ![HkT] = "idle"]
            /\ frame' = [frame EXCEPT ![HkT] = NoFrame]
            /\ hist' = [hist EXCEPT !.ntrig = @ + 1, !.ended = NoProc,
                                    !.prev = IF @ = "stop" THEN "stop" ELSE "other"]
    /\ UNCHANGED <<procs, shared, nmon>>

\* self.stop_monitoring.set()
StSet ==
    /\ Running
    /\ pc[HkT] = "st_set"
    /\ stop_monitoring' = TRUE
    /\ Goto(HkT, "st_term")
    /\ UNCHANGED <<procs, mpv_process, is_demo_playing, mpv_exe, volume_control,
                   volume, paths, hotkeys, nmon, frame, hist>>

\* self.mpv_process.terminate()
StTerm ==
    /\ Running
    /\ pc[HkT] = "st_term"
    /\ procs' = Terminate(procs, mpv_process)
    /\ Goto(HkT, "st_wait0")
    /\ UNCHANGED <<shared, nmon, frame, hist>>

\* self.mpv_process.wait(timeout=3) is entered on the current handle
StWait0 ==
    /\ Running
    /\ pc[HkT] = "st_wait0"
    /\ frame' = [frame EXCEPT ![HkT].wp = mpv_process]
    /\ Goto(HkT, "st_wait")
    /\ UNCHANGED <<procs, shared, nmon, hist>>

\* wait returns (the process ended) or raises TimeoutExpired
StWait ==
    /\ Running
    /\ pc[HkT] = "st_wait"
    /\ Goto(HkT, IF Alive(frame[HkT].wp) THEN "st_kill" ELSE "st_flag")
    /\ UNCHANGED <<procs, shared, nmon, frame, hist>>

\* self.mpv_process.kill()
StKill ==
    /\ Running
    /\ pc[HkT] = "st_kill"
    /\ procs' = Kill(procs, mpv_process)
    /\ Goto(HkT, "st_flag")
    /\ UNCHANGED <<shared, nmon, frame, hist>>

\* self.is_demo_playing = False
StFlag ==
    /\ Running
    /\ pc[HkT] = "st_flag"
    /\ is_demo_playing' = FALSE
    /\ Finish("stop", TRUE)
    /\ UNCHANGED <<procs, mpv_process, stop_monitoring, mpv_exe, volume_control,
                   volume, paths, hotkeys, nmon>>

\* ------------------------------------- restart_carescape (manual-restart)

\* Ctrl+Alt+R: self.stop_monitoring.set()
ManualRestart ==
    /\ Running
    /\ pc[HkT] = "idle"
    /\ "r" \in hotkeys
    /\ hist.ntrig < MaxTrig
    /\ stop_monitoring' = TRUE
    /\ Goto(HkT, "rs_flag")
    /\ hist' = [hist EXCEPT !.ntrig = @ + 1, !.ended = NoProc]
    /\ UNCHANGED <<procs, mpv_process, is_demo_playing, mpv_exe, volume_control,
                   volume, paths, hotkeys, nmon, frame>>

\* self.is_demo_playing = False; start_mpv(self.carescape_video, loop=True)
RsFlag ==
    /\ Running
    /\ pc[HkT] = "rs_flag"
    /\ is_demo_playing' = FALSE
    /\ \E exe, raised \in BOOLEAN :
         CallStart(HkT, "restart", "carescape", TRUE, exe, raised)
    /\ UNCHANGED <<mpv_process, stop_monitoring, volume_control,
                   volume, paths, hotkeys, nmon, hist>>

\* if success: self.stop_monitoring.clear()   /   else: (only a message)
RsRet ==
    /\ Running
    /\ pc[HkT] = "ret"
    /\ frame[HkT].ctx = "restart"
    /\ IF frame[HkT].ret
       THEN stop_monitoring' = FALSE /\ Finish("other", TRUE)
       ELSE UNCHANGED stop_monitoring /\ Finish("other", FALSE)
    /\ UNCHANGED <<procs, mpv_process, is_demo_playing, mpv_exe, volume_control,
                   volume, paths, hotkeys, nmon>>

\* ------------------------------------------------------ monitor_demo_end

\* while self.is_demo_playing ...
MnLoop1(m) ==
    /\ Running
    /\ pc[m] = "mn_loop"
    /\ IF is_demo_playing
       THEN Goto(m, "mn_loop2") /\ UNCHANGED frame
       ELSE EndThread(m)
    /\ UNCHANGED <<procs, shared, nmon, hist>>

\* ... and not self.stop_monitoring.is_set():
MnLoop2(m) ==
    /\ Running
    /\ pc[m] = "mn_loop2"
    /\ IF stop_monitoring
       THEN EndThread(m)
       ELSE Goto(m, "mn_poll") /\ UNCHANGED frame
    /\ UNCHANGED <<procs, shared, nmon, hist>>

\* if self.mpv_process and self.mpv_process.poll() is not None:
\*     start_mpv(self.carescape_video, loop=True)
\* else: time.sleep(0.5) and loop
MnPoll(m) ==
    /\ Running
    /\ pc[m] = "mn_poll"
    /\ IF mpv_process # NoProc /\ ~Alive(mpv_process)
       THEN \E exe, raised \in BOOLEAN :
              /\ CallStart(m, "monitor", "carescape", TRUE, exe, raised)
              /\ hist' = [hist EXCEPT
                            !.prev = "other",
                            !.reacted = @ \cup {[m |-> m, p |-> mpv_process,
                                                 gen |-> Len(procs),
                                                 np |-> frame'[m].newp]}]
       ELSE /\ Goto(m, "mn_loop")
            /\ UNCHANGED <<procs, mpv_exe, frame, hist>>
    /\ UNCHANGED <<mpv_process, is_demo_playing, stop_monitoring, volume_control,
                   volume, paths, hotkeys, nmon>>

\* self.is_demo_playing = False; break   (whether or not the start succeeded)
MnRet(m) ==
    /\ Running
    /\ pc[m] = "ret"
    /\ frame[m].ctx = "monitor"
    /\ is_demo_playing' = FALSE
    /\ EndThread(m)
    /\ hist' = [hist EXCEPT !.failed = @ \/ ~frame[m].ret]
    /\ UNCHANGED <<procs, mpv_process, stop_monitoring, mpv_exe, volume_control,
                   volume, paths, hotkeys, nmon>>

\* ---------------------------------------------------------- environment

\* a thread is inside start_mpv with new process p, before its liveness check
Starting(p) ==
    \E t \in Threads : frame[t].newp = p /\ pc[t] \in {"sm_check", "sm_term",
                                                       "sm_assign", "sm_poll"}

\* A player process ends by itself: the demo video is over (no --loop-file),
\* mpv fails right after its start, or a requested termination takes effect.
ProcExit(p) ==
    /\ procs[p].alive
    /\ ~procs[p].loop \/ procs[p].term \/ Starting(p)
    /\ procs' = [procs EXCEPT ![p].alive = FALSE]
    /\ hist' = IF /\ p = mpv_process
                  /\ procs[p].video = "demo"
                  /\ ~procs[p].term
                  /\ is_demo_playing
                  /\ ~hist.failed
                  /\ pc[HkT] = "idle"
                  /\ pc[MainT] = "rn_wait"
               THEN [hist EXCEPT !.ended = p]
               ELSE hist
    /\ UNCHANGED <<shared, nmon, pc, frame>>

\* Q in the mpv window: the user quits a player
UserQuit(p) ==
    /\ procs[p].alive
    /\ hist.ntrig < MaxTrig
    /\ procs' = [procs EXCEPT ![p].alive = FALSE]
    /\ hist' = [hist EXCEPT !.ntrig = @ + 1, !.ended = NoProc]
    /\ UNCHANGED <<shared, nmon, pc, frame>>

Environment ==
    \/ \E p \in DOMAIN procs : ProcExit(p)
    \/ \E p \in DOMAIN procs : UserQuit(p)

\* ------------------------------------------------------- specification

StartStep(t) ==
    \/ SmCheck(t)
    \/ SmTerm(t)
    \/ SmAssign(t)
    \/ SmPoll(t)
    \/ SmVol(t)

MainStep ==
    \/ RunPaths
    \/ RunFind
    \/ RunAfterStart
    \/ RunHotkeys
    \/ ClCheck
    \/ ClTerm
    \/ ClWait0
    \/ ClWait
    \/ ClKill

HotkeyStep ==
    \/ TbSet
    \/ TbRet
    \/ TbClear
    \/ TdFlag
    \/ TdRet
    \/ StSet
    \/ StTerm
    \/ StWait0
    \/ StWait
    \/ StKill
    \/ StFlag
    \/ RsFlag
    \/ RsRet

MonitorStep(m) ==
    \/ MnLoop1(m)
    \/ MnLoop2(m)
    \/ MnPoll(m)
    \/ MnRet(m)

Trigger ==
    \/ Toggle
    \/ ManualStop
    \/ ManualRestart
    \/ ExitSignal

Next ==
    \/ \E t \in Threads : StartStep(t)
    \/ MainStep
    \/ HotkeyStep
    \/ \E m \in Monitors : MonitorStep(m)
    \/ Trigger
    \/ Environment

Spec == Init /\ [][Next]_vars

\* ================================================================ claims

LiveProcs == {p \in DOMAIN procs : procs[p].alive}

\* thread t is inside start_mpv, stop_mpv's stopping branch or cleanup's
InStartOrStop(t) ==
    pc[t] \in {"sm_check", "sm_term", "sm_assign", "sm_poll", "sm_vol",
               "st_set", "st_term", "st_wait0", "st_wait", "st_kill",
               "cl_check", "cl_term", "cl_wait0", "cl_wait", "cl_kill"}

\* no hotkey callback, monitor or cleanup is under way
Quiescent ==
    /\ pc[MainT] = "rn_wait"
    /\ pc[HkT] = "idle"
    /\ \A m \in Monitors : pc[m] \in {"unborn", "done"}

\* the Background state: the held process plays the carescape video in a
\* loop, and the demo flag is off
InBackground ==
    /\ ~is_demo_playing
    /\ Alive(mpv_process)
    /\ procs[mpv_process].video = "carescape"
    /\ procs[mpv_process].loop

\* C1: in every reachable state at most one player process is live.
C1_AtMostOneLive == Cardinality(LiveProcs) <= 1

\* C2: a monitor reacts to an ended process (starts the carescape video, then
\* clears is_demo_playing) only while its own Demo session is the newest one:
\* no demo process was spawned after the one the monitor was started for.
\* Stated for the runs in which every start made by a callback or a monitor
\* has succeeded so far.
C2_OnlyCurrentMonitorHonored ==
    ~hist.failed =>
        \A r \in hist.reacted :
            \A p \in DOMAIN procs :
                (procs[p].video = "demo" /\ p <= r.gen) => p <= hist.sess[r.m]

\* C3: once the held demo process has ended by itself, with no callback
\* running and no external event since, the system comes back to Background
\* unless a carescape start made in reaction to that end failed. Stated on
\* the states where nothing is left to run, whatever the scheduling: there
\* the return must have happened already. (The claim also asks for the
\* carescape volume; this is the part of it that needs no volume control.)
C3_DemoEndReturnsToBackground ==
    (Quiescent /\ hist.ended # NoProc)
        => (InBackground \/ \E r \in hist.reacted : r.p = hist.ended)

\* C4: the end of one demo process draws at most one reaction: over all
\* monitors, the carescape video is spawned at most once for it.
C4_AtMostOneReactionPerDemo ==
    \A p \in DOMAIN procs :
        Cardinality({r \in hist.reacted : r.p = p /\ r.np # NoProc}) <= 1

\* C5: at most one execution context at a time is inside a start or a stop
\* of the player process.
C5_MutualExclusion ==
    Cardinality({t \in Threads : InStartOrStop(t)}) <= 1

\* C6: when the toggle into Demo returns after its start failed,
\* is_demo_playing is off and no monitor thread was started.
C6_FailedDemoStartStaysBackground ==
    [][(/\ pc[HkT] = "ret"
        /\ frame[HkT].ctx = "tdemo"
        /\ ~frame[HkT].ret
        /\ pc'[HkT] = "idle")
       => (/\ ~is_demo_playing'
           /\ nmon' = nmon
           /\ \A m \in Monitors : pc'[m] = pc[m])]_vars

C6_Witness ==
    /\ hist.prev = "tdemo_fail"
    /\ pc[HkT] = "idle"
    /\ ~is_demo_playing

\* C7: when start_mpv returns False because Popen raised or the new process
\* ended at once, the process that was live and held when start_mpv was
\* called is still the held handle. (The claim also has it still live, and
\* the demo flag as before the start; this is its first part.)
C7_FailedStartKeepsPrior ==
    \A t \in Threads :
        (/\ pc[t] = "ret"
         /\ ~frame[t].ret
         /\ frame[t].why \in {"spawn", "exited"}
         /\ frame[t].prior # NoProc)
        => mpv_process = frame[t].prior

\* C8: the toggle back that follows a successful toggle into Demo, its own
\* start succeeding and its set_volume taking effect, returns with the demo
\* flag off, the system volume at the carescape volume and the held process
\* one that was started on the carescape video with --loop-file=inf.
C8_RoundTrip ==
    [][(/\ pc[HkT] = "tb_clear"
        /\ pc'[HkT] = "idle"
        /\ hist.prev = "tdemo_ok"
        /\ frame[HkT].volok)
       => (/\ ~is_demo_playing'
           /\ volume' = carescape_volume
           /\ mpv_process' # NoProc
           /\ procs'[mpv_process'].video = "carescape"
           /\ procs'[mpv_process'].loop)]_vars

C8_Witness ==
    /\ hist.prev = "roundtrip"
    /\ pc[HkT] = "idle"
    /\ InBackground
    /\ volume = carescape_volume

\* C9: a manual-stop that comes right after a manual-stop that stopped the
\* player (no other event handled in between, and no detection by a monitor
\* since the first one returned) finds no live process: it takes the branch
\* that only prints.
C9_SecondStopIsNoOp ==
    ~(pc[HkT] = "st_set" /\ hist.prev = "stop")

\* C10: if one of the two video files is missing, no player process is ever
\* spawned, no hotkey is registered and no monitor thread is started.
C10_MissingVideoAborts ==
    (~paths.carescape \/ ~paths.demo)
        => (procs = << >> /\ hotkeys = {} /\ nmon = 0 /\ mpv_process = NoProc)

C10_Witness ==
    /\ ~paths.demo
    /\ paths.carescape
    /\ pc[MainT] = "aborted"

\* C11: cleanup() calls kill() only after it has called terminate() and its
\* wait(timeout=3) has raised TimeoutExpired, and then once: it returns right
\* after the kill, and it never returns from a timed-out wait without the
\* kill. When its wait returns, it calls no kill.
C11_KillOnceAfterTimeout ==
    [][/\ (pc[MainT] = "cl_kill" /\ pc'[MainT] # "cl_kill")
            => (hist.cl = "timeout" /\ hist'.cl = "killed" /\ pc'[MainT] = "exit")
       /\ (hist'.cl = "killed" /\ hist.cl # "killed") => hist.cl = "timeout"
       /\ (hist'.cl = "timeout" /\ hist.cl # "timeout") => hist.cl = "term"
       /\ hist.cl \in {"returned", "killed"} => hist'.cl = hist.cl]_vars

C11_Witness ==
    /\ pc[MainT] = "exit"
    /\ hist.cl = "killed"
    /\ mpv_process # NoProc
    /\ ~procs[mpv_process].alive

\* the caller of start_mpv on thread t, in handler ctx, takes its next step
\* with start_mpv having returned True without the volume being set
AfterUnsetVolume(t, ctx) ==
    /\ pc[t] = "ret"
    /\ frame[t].ctx = ctx
    /\ frame[t].ret
    /\ ~frame[t].volok
    /\ pc'[t] # "ret"
    /\ pc'[MainT] # "exit"

\* C12: a start whose new process was found alive returns True whether
\* set_volume succeeded, raised or found no volume control, and its caller
\* then takes its success branch: run() goes on to the hotkeys, the toggle
\* into Demo starts the monitor and leaves is_demo_playing as it is, the
\* toggle back and the monitor clear
\* is_demo_playing, manual-restart clears stop_monitoring.
C12_VolumeFailureNeverBlocks ==
    [][/\ \A t \in Threads :
            (pc[t] = "sm_vol" /\ pc'[t] # "sm_vol" /\ pc'[MainT] # "exit")
                => (pc'[t] = "ret" /\ frame'[t].ret)
       /\ AfterUnsetVolume(MainT, "init") => pc'[MainT] = "rn_hotkeys"
       /\ AfterUnsetVolume(HkT, "tdemo")
            => (/\ nmon' = nmon + 1
                /\ pc'[nmon'] = "mn_loop"
                /\ is_demo_playing' = is_demo_playing)
       /\ AfterUnsetVolume(HkT, "tback")
            => (~is_demo_playing' /\ pc'[HkT] = "tb_clear")
       /\ AfterUnsetVolume(HkT, "restart") => ~stop_monitoring'
       /\ \A m \in Monitors :
            AfterUnsetVolume(m, "monitor") => (~is_demo_playing' /\ pc'[m] = "done")]_vars

C12_Witness ==
    /\ hist.prev = "tdemo_ok"
    /\ pc[HkT] = "idle"
    /\ volume # demo_volume
    /\ is_demo_playing
    /\ Alive(mpv_process)
    /\ procs[mpv_process].video = "demo"

\* C13: when a manual-stop has been handled, by either branch of stop_mpv,
\* is_demo_playing is off. (The claim also has stop_monitoring set and no
\* player live; this is its part about the active profile.)
C13_ManualStopClearsProfile ==
    [][(\/ (pc[HkT] = "st_flag" /\ pc'[HkT] = "idle")
        \/ (/\ pc[HkT] = "idle"
            /\ pc' = pc
            /\ hist'.ntrig # hist.ntrig
            /\ procs' = procs))
       => ~is_demo_playing']_vars

\* the monitor threads that have passed their loop condition and are about
\* to poll the held process
Polling == {m \in Monitors : pc[m] = "mn_poll"}

\* C14: in every reachable state at most one monitor thread is about to poll
\* the held process. Stated for the runs in which every start made by a
\* callback or a monitor has succeeded so far.
C14_AtMostOneMonitorPolling == ~hist.failed => Cardinality(Polling) <= 1

\* C15: a monitor that polls while stop_monitoring is set and the held
\* process has been asked to terminate does not react: it neither calls
\* start_mpv nor goes on to clear is_demo_playing.
C15_CancelledMonitorStaysSilent ==
    [][\A m \in Monitors :
          (/\ pc[m] = "mn_poll"
           /\ stop_monitoring
           /\ mpv_process # NoProc
           /\ procs[mpv_process].term)
              => pc'[m] \in {"mn_poll", "mn_loop", "done"}]_vars

\* C16: from the moment a start has stored its new process in mpv_process,
\* that is before it checks the new process's liveness and before it returns
\* True, the handle it has overwritten is one that has ended or has been
\* asked to terminate.
C16_PriorTerminatedBeforeLivenessCheck ==
    \A t \in Threads :
        (/\ \/ pc[t] \in {"sm_poll", "sm_vol"}
            \/ (pc[t] = "ret" /\ frame[t].ret)
         /\ frame[t].repl # NoProc)
        => (~procs[frame[t].repl].alive \/ procs[frame[t].repl].term)

\* C17: once run() has returned from a cleanup() whose terminate() ended the
\* held process within the timeout, every player process that is still live
\* has at least been asked to terminate. (The claim has none of them live at
\* all, and also when cleanup() had to kill or found nothing to stop.)
C17_NoLiveProcessAfterCleanup ==
    (pc[MainT] = "exit" /\ hist.cl = "returned")
        => \A p \in LiveProcs : procs[p].term

HandlerRan ==
    \/ pc[HkT] \notin {"idle", "done"}
    \/ hist.prev # "none"
    \/ nmon > 0

\* C19: a hotkey is registered, a hotkey callback runs or a monitor thread
\* exists only after run() has got True from its start of the carescape
\* video: then the first process spawned plays the carescape video in a loop
\* and has been stored in mpv_process. When run() has returned because that
\* start failed, no hotkey is registered, no callback has run and no monitor
\* thread was started.
C19_HandlersOnlyAfterInitialStart ==
    /\ (hotkeys # {} \/ HandlerRan)
          => (/\ pc[MainT] \in {"rn_wait", "cl_check", "cl_term", "cl_wait0",
                                "cl_wait", "cl_kill", "exit"}
              /\ mpv_process # NoProc
              /\ Len(procs) >= 1
              /\ procs[1].video = "carescape"
              /\ procs[1].loop
              /\ hist.init = "ok")
    /\ pc[MainT] = "aborted" => (hotkeys = {} /\ ~HandlerRan)

C19_Witness ==
    /\ pc[MainT] = "aborted"
    /\ hist.init = "failed"
    /\ Len(procs) = 1
    /\ hotkeys = {}

\* C20: the system volume changes only in the step in which a start whose
\* new process was found alive calls set_volume and returns True; a start
\* comes to return False from its call or from its liveness check, never by
\* way of set_volume, and the volume is the same before and after that step.
C20_FailedStartKeepsVolume ==
    [][/\ volume' # volume
            => \E t \in Threads :
                   pc[t] = "sm_vol" /\ pc'[t] = "ret" /\ frame'[t].ret
       /\ \A t \in Threads :
            (pc[t] # "ret" /\ pc'[t] = "ret" /\ ~frame'[t].ret)
                => (/\ volume' = volume
                    /\ pc[t] \in {"rn_find", "tb_set", "td_flag", "rs_flag",
                                  "mn_poll", "sm_poll"}
                    /\ ~frame'[t].volok)]_vars

C20_Witness ==
    /\ pc[HkT] = "ret"
    /\ frame[HkT].ctx = "tdemo"
    /\ ~frame[HkT].ret
    /\ frame[HkT].why = "exited"
    /\ volume = carescape_volume

====
